---- MODULE Spec2Model ----
(***************************************************************************)
(* Instagram DM agent: the conversation store, the inbound webhook turn,   *)
(* the inactivity followup scheduler (text side) and the voice lead        *)
(* followup service with its poller (voice side).                          *)
(*                                                                         *)
(* Text side time is counted in whole hours (datetime.utcnow()); voice     *)
(* side time is counted in seconds (time.time()).                          *)
(***************************************************************************)
EXTENDS Integers, Sequences, FiniteSets, TLC

\* ---------------------------------------------------------------- bounds
MaxTime == 28          \* last hour the text-side clock reaches
MaxTurns == 1          \* inbound messages accepted per conversation
MaxTicks == 2          \* advances of the voice-side clock
MaxQualify == 2        \* followups scheduled by qualify_lead, all keys
MaxTextLen == 5        \* tokens of a reply text given to the ref injection
MaxStoreTicks == 2     \* advances of the clock of the store calls
MaxMessages == 2       \* messages the store calls put in one conversation
MaxLimit == 3          \* largest limit given to get_history
MaxLogLen == 5         \* messages in the log of the concurrent writers

\* ------------------------------------------------------ program constants
FIRST_FOLLOWUP_HOURS == 2
SECOND_FOLLOWUP_HOURS == 24
MAX_FOLLOWUPS == 2

followup_delay_warm == 2       \* minutes
followup_delay_cold == 1440    \* minutes

Customers == {"c1"}
TickSteps == {1, 24}                \* hours
Keys == {"k1", "k2"}                \* followup:{client_id}:{conv_id}
Qualifications == {"hot", "warm", "cold", "unsure"}
TurnLeadTypes == {"warm"}           \* lead_type the reply model returns
VoiceTickSteps == {30, 120, 86400}  \* seconds
NoTime == -1           \* a timestamp or score that is absent (None)

VARIABLES
    utcnow,            \* datetime.utcnow(), in hours
    conv,              \* redis conversation:{client_id}:{customer_id}
    meta,              \* redis customer:{client_id}:{customer_id}
    turn,              \* receive_webhook invocation in flight, per customer
    sched_pc,          \* FollowupScheduler task position
    inactive_convs,    \* candidates of the sweep in progress
    conv_idx,          \* index of the candidate being processed
    send_result,       \* what the last instagram.send_message returned
    followups_sent,    \* followups the outbound channel accepted, per customer
    time_now,          \* time.time(), in seconds
    ticks,             \* advances of time_now so far
    followup,          \* redis hash followup:{client_id}:{conv_id}
    scheduled,         \* redis sorted set followups:scheduled, key -> score
    qual_pc,           \* schedule_followup invocation in flight, per key
    scheduled_n,       \* schedule_followup record writes so far, per key
    poll_pc,           \* followup_worker task position
    current_time,      \* current_time of the poller sweep in progress
    due_followups,     \* zrangebyscore result of the sweep in progress
    due_idx,           \* index of the entry being processed
    executed,          \* SMS/call executions so far, per key
    outcomes,          \* how each entry visited by the sweep in progress went
    agent_call,        \* last call of an agent helper: arguments and result
    store_now,         \* datetime.utcnow() of the store calls, in hours
    store_ticks,       \* advances of store_now so far
    store_conv,        \* conversation record the store calls work on
    store_meta,        \* customer metadata record the store calls work on
    store_call,        \* last call of the store: arguments and result
    current_config,    \* client_config._current_config, the process-wide pointer
    request,           \* receive_webhook invocations of the process, per slot
    followup_read,     \* tenant and configuration of the last followup prompt
    raw_records,       \* what Redis holds under conversation:{client}:{customer}
    sweep,             \* the sweep of one client the scheduler task is in
    scheduler,         \* FollowupScheduler._running and the state of its task
    http,              \* InstagramClient.send_message call in progress
    log,               \* one conversation record: present, messages
    writer,            \* receive_webhook invocations writing to it, per slot
    dispatch_pc        \* the scheduler's followup for this conversation

textvars == <<utcnow, conv, meta, turn, sched_pc, inactive_convs, conv_idx,
              send_result, followups_sent>>
voicevars == <<time_now, ticks, followup, scheduled, qual_pc,
               scheduled_n, poll_pc, current_time, due_followups, due_idx,
               executed, outcomes>>
agentvars == <<agent_call>>
storevars == <<store_now, store_ticks, store_conv, store_meta, store_call>>
pipevars == <<current_config, request, followup_read>>
sweepvars == <<raw_records, sweep, scheduler>>
retryvars == <<http>>
logvars == <<log, writer, dispatch_pc>>
procvars == <<pipevars, sweepvars, retryvars, logvars>>
nontextvars == <<voicevars, agentvars, storevars, procvars>>
nonvoicevars == <<textvars, agentvars, storevars, procvars>>
nonprocvars == <<textvars, voicevars, agentvars, storevars>>
vars == <<textvars, voicevars, agentvars, storevars, procvars>>

MAX_RETRIES == 3
INITIAL_BACKOFF == 1           \* seconds

\* ------------------------------------------------------ conversation store
NoConv ==
    [present |-> FALSE, messages |-> <<>>, last_interaction |-> NoTime,
     followup_count |-> 0, last_followup_at |-> NoTime]

Message(role, is_followup) ==
    [role |-> role, is_followup |-> is_followup]

\* an add_message that always starts from a fresh record instead of loading
\* the stored one
add_message_Overwrite(cv, role, t) ==
    [NoConv EXCEPT !.present = TRUE,
                   !.messages = <<Message(role, FALSE)>>,
                   !.last_interaction = t]

\* ConversationStore.add_message: load or create, append, stamp, save
add_message(cv, role, t) ==
    [cv EXCEPT !.present = TRUE,
               !.messages = Append(cv.messages, Message(role, FALSE)),
               !.last_interaction = t]

\* a lead score that boosts every customer who is not new
get_lead_score_BoostNotNew(lead_type, user_type) ==
    LET score == IF lead_type = "hot" THEN 80
                 ELSE IF lead_type = "warm" THEN 50
                 ELSE IF lead_type = "cold" THEN 20
                 ELSE 50
    IN IF user_type # "new"
       THEN (IF score + 10 < 100 THEN score + 10 ELSE 100)
       ELSE score

\* FastResponseAgent._get_lead_score
get_lead_score(lead_type, user_type) ==
    LET score == IF lead_type = "hot" THEN 80
                 ELSE IF lead_type = "warm" THEN 50
                 ELSE IF lead_type = "cold" THEN 20
                 ELSE 50
    IN IF user_type = "returning"
       THEN (IF score + 10 < 100 THEN score + 10 ELSE 100)
       ELSE score

\* ConversationStore.get_user_type
get_user_type(cv, t) ==
    IF ~cv.present \/ cv.messages = <<>> THEN "new"
    ELSE IF cv.last_interaction # NoTime /\ (t - cv.last_interaction) \div 24 > 7
         THEN "inactive"
         ELSE "returning"

\* a metadata update that stores the supplied fields in place of the record
update_customer_metadata_Replace(md, kwargs) == kwargs

\* ConversationStore.update_customer_metadata: metadata.update(kwargs).  The
\* write stamps (updated_at, blocked_at, unblocked_at) are never read by the
\* code modelled here and are left out of the record.
update_customer_metadata(md, kwargs) ==
    [k \in (DOMAIN md) \cup (DOMAIN kwargs) |->
        IF k \in DOMAIN kwargs THEN kwargs[k] ELSE md[k]]

\* customer_metadata.get("agent_blocked", False)
agent_blocked(md) ==
    IF "agent_blocked" \in DOMAIN md THEN md["agent_blocked"] ELSE FALSE

EmptyMeta == [k \in {} |-> 0]

\* ------------------------------------------------------- followup scanner
\* the scan without the followup_count < MAX_FOLLOWUPS check
Eligible_NoMax(cv, t) ==
    /\ cv.present
    /\ cv.last_interaction # NoTime
    /\ ~(t - cv.last_interaction < FIRST_FOLLOWUP_HOURS)
    /\ (cv.messages # <<>> =>
            cv.messages[Len(cv.messages)].role \in {"agent", "assistant"})
    /\ (cv.followup_count = 1 /\ cv.last_followup_at # NoTime =>
            ~(t - cv.last_followup_at < SECOND_FOLLOWUP_HOURS))

\* the scan without the check of the last message's role
Eligible_NoRoleCheck(cv, t) ==
    /\ cv.present
    /\ cv.last_interaction # NoTime
    /\ ~(t - cv.last_interaction < FIRST_FOLLOWUP_HOURS)
    /\ ~(cv.followup_count >= MAX_FOLLOWUPS)
    /\ (cv.followup_count = 1 /\ cv.last_followup_at # NoTime =>
            ~(t - cv.last_followup_at < SECOND_FOLLOWUP_HOURS))

\* the scan applying the first-tier threshold to the second followup too
Eligible_NoSecondTier(cv, t) ==
    /\ cv.present
    /\ cv.last_interaction # NoTime
    /\ ~(t - cv.last_interaction < FIRST_FOLLOWUP_HOURS)
    /\ ~(cv.followup_count >= MAX_FOLLOWUPS)
    /\ (cv.messages # <<>> =>
            cv.messages[Len(cv.messages)].role \in {"agent", "assistant"})
    /\ (cv.followup_count = 1 /\ cv.last_followup_at # NoTime =>
            ~(t - cv.last_followup_at < FIRST_FOLLOWUP_HOURS))

\* FollowupScheduler._get_inactive_conversations, the checks on one record
Eligible(cv, t) ==
    /\ cv.present
    /\ cv.last_interaction # NoTime
    /\ ~(t - cv.last_interaction < FIRST_FOLLOWUP_HOURS)
    /\ ~(cv.followup_count >= MAX_FOLLOWUPS)
    /\ (cv.messages # <<>> =>
            cv.messages[Len(cv.messages)].role \in {"agent", "assistant"})
    /\ (cv.followup_count = 1 /\ cv.last_followup_at # NoTime =>
            ~(t - cv.last_followup_at < SECOND_FOLLOWUP_HOURS))

Candidate(c, cv, t) ==
    [customer_id |-> c, messages |-> cv.messages,
     hours_inactive |-> t - cv.last_interaction,
     followup_count |-> cv.followup_count]

\* r.keys(pattern) returns the keys in no particular order
KeyOrders ==
    {s \in [1..Cardinality(Customers) -> Customers] :
        \A i, j \in DOMAIN s : i # j => s[i] # s[j]}

RECURSIVE ScanFrom(_, _, _, _)
ScanFrom(keys, i, cvs, t) ==
    IF i > Len(keys) THEN <<>>
    ELSE IF Eligible(cvs[keys[i]], t)
         THEN <<Candidate(keys[i], cvs[keys[i]], t)>> \o ScanFrom(keys, i + 1, cvs, t)
         ELSE ScanFrom(keys, i + 1, cvs, t)

get_inactive_conversations(keys, cvs, t) == ScanFrom(keys, 1, cvs, t)

\* a tracking update that forgets to count the followup
update_followup_tracking_NoCount(cv, t) ==
    IF ~cv.present THEN cv
    ELSE [cv EXCEPT !.last_followup_at = t,
                    !.messages = Append(cv.messages, Message("agent", TRUE)),
                    !.last_interaction = t]

\* a tracking update that appends the followup like an ordinary reply
update_followup_tracking_NoFlag(cv, t) ==
    IF ~cv.present THEN cv
    ELSE [cv EXCEPT !.followup_count = cv.followup_count + 1,
                    !.last_followup_at = t,
                    !.messages = Append(cv.messages, Message("agent", FALSE)),
                    !.last_interaction = t]

\* FollowupScheduler._update_followup_tracking
update_followup_tracking(cv, t) ==
    IF ~cv.present THEN cv
    ELSE [cv EXCEPT !.followup_count = cv.followup_count + 1,
                    !.last_followup_at = t,
                    !.messages = Append(cv.messages, Message("agent", TRUE)),
                    !.last_interaction = t]

\* ----------------------------------------------------------- voice records
NoFollowup ==
    [present |-> FALSE, lead_type |-> "cold", followup_type |-> "sms_only",
     execute_at |-> NoTime, status |-> "pending"]

IdleQual == [pc |-> "idle", execute_at |-> NoTime]

\* no agent helper has been called yet
NoAgentCall ==
    [op |-> "none", text |-> <<>>, customer_id |-> "", lead_type |-> "",
     user_type |-> "", result_text |-> <<>>, result_score |-> 0]

\* no store method has been called yet
NoStoreCall ==
    [op |-> "none", at |-> NoTime, message |-> <<>>, limit |-> 0,
     kwargs |-> EmptyMeta, result_messages |-> <<>>, result_type |-> "",
     prev_op |-> "none", repeat |-> FALSE]

\* ------------------------------------------------------ tenants, pipeline
Tenants == {"t1", "t2", "t3"}
ConfiguredTenants == {"t1", "t2"}   \* tenants with a client record in Redis
Slots == {"r1", "r2"}               \* webhook requests the process handles
NoConfig == "none"                  \* _current_config = None
Unread == "unread"

\* the linear graph of create_fast_workflow
StageNames == <<"context", "fast_response", "action">>

IdleRequest ==
    [pc |-> "idle", tenant |-> "t1", stages |-> <<>>, error |-> "none",
     config_read |-> Unread, status |-> "none"]

NoFollowupRead == [tenant |-> "none", config |-> Unread]

\* ------------------------------------------------- sweep over raw records
SweepCustomers == {"u1", "u2", "u3"}

\* a stored value: nothing, a record passing every check, a record failing a
\* check, a record whose last_interaction is not a timestamp, a value that is
\* not JSON
RecordKinds == {"absent", "eligible", "ineligible", "bad_timestamp", "garbage"}

NoSweep == [pc |-> "sleep", eligible |-> <<>>, idx |-> 0, processed |-> <<>>]

\* ------------------------------------------------------- outbound request
Methods == {"post", "get", "put"}

\* what one attempt ends with: a response (status 200 or an error status), one
\* of the three exceptions the retry loop catches, or any other exception
ConnectionFailures == {"ConnectTimeout", "ReadTimeout", "ConnectError"}
AttemptOutcomes ==
    {"response_200", "response_error", "WriteTimeout"} \cup ConnectionFailures

NoRequest ==
    [pc |-> "idle", method |-> "post", attempt |-> 0, outcomes |-> <<>>,
     backoffs |-> <<>>, result |-> "none"]

\* ------------------------------------------------------ concurrent writers
NoLog == [present |-> FALSE, messages |-> <<>>]

IdleWriter == [pc |-> "idle", snapshot |-> NoLog]

LogMessage(role, content, is_followup) ==
    [role |-> role, content |-> content, is_followup |-> is_followup]

\* -------------------------------------------------------------- the state
IdleTurn ==
    [pc |-> "idle", user_type |-> "new", is_blocked |-> FALSE,
     invoked |-> FALSE, llm_output |-> "none", error |-> FALSE,
     response_text |-> "", dm_sent |-> FALSE, status |-> "none",
     blocked |-> FALSE]

\* everything but the agent helper call
InitRest ==
    /\ utcnow = 0
    /\ conv = [c \in Customers |-> NoConv]
    /\ meta = [c \in Customers |-> EmptyMeta]
    /\ turn = [c \in Customers |-> IdleTurn]
    /\ sched_pc = "sleep"
    /\ inactive_convs = <<>>
    /\ conv_idx = 0
    /\ send_result = "none"
    /\ followups_sent = [c \in Customers |-> 0]
    /\ time_now = 0
    /\ ticks = 0
    /\ followup = [k \in Keys |-> NoFollowup]
    /\ scheduled = [k \in Keys |-> NoTime]
    /\ qual_pc = [k \in Keys |-> IdleQual]
    /\ scheduled_n = [k \in Keys |-> 0]
    /\ poll_pc = "sleep"
    /\ current_time = NoTime
    /\ due_followups = <<>>
    /\ due_idx = 0
    /\ executed = [k \in Keys |-> 0]
    /\ outcomes = <<>>
    /\ store_now = 0
    /\ store_ticks = 0
    /\ store_conv = NoConv
    /\ store_meta = EmptyMeta
    /\ store_call = NoStoreCall
    /\ current_config = NoConfig
    /\ request = [s \in Slots |-> IdleRequest]
    /\ followup_read = NoFollowupRead
    /\ raw_records = [u \in SweepCustomers |-> "absent"]
    /\ sweep = NoSweep
    /\ scheduler = [running |-> TRUE, task |-> "alive", stop_returned |-> FALSE]
    /\ http = NoRequest
    /\ log = NoLog
    /\ writer = [w \in Slots |-> IdleWriter]
    /\ dispatch_pc = "idle"

Init ==
    /\ InitRest
    /\ agent_call = NoAgentCall

\* ------------------------------------------------------------ text clock
Tick ==
    /\ \E d \in TickSteps :
        /\ utcnow + d <= MaxTime
        /\ utcnow' = utcnow + d
    /\ UNCHANGED <<conv, meta, turn, sched_pc, inactive_convs, conv_idx,
                   send_result, followups_sent>>
    /\ UNCHANGED nontextvars

\* --------------------------------------------------------- inbound webhook
CustomerMessages(cv) ==
    {i \in DOMAIN cv.messages : cv.messages[i].role = "customer"}

\* receive_webhook up to its first suspension (the profile fetch)
ReceiveWebhook(c) ==
    /\ turn[c].pc \in {"idle", "done"}
    /\ Cardinality(CustomerMessages(conv[c])) < MaxTurns
    /\ turn' = [turn EXCEPT ![c] =
                    [IdleTurn EXCEPT !.pc = "received",
                                     !.user_type = get_user_type(conv[c], utcnow)]]
    /\ UNCHANGED <<utcnow, conv, meta, sched_pc, inactive_convs, conv_idx,
                   send_result, followups_sent>>
    /\ UNCHANGED nontextvars

\* a handler that stores the message and goes on without the blocked check
StoreAndCheckBlocked_NoSkip(c) ==
    /\ turn[c].pc = "received"
    /\ conv' = [conv EXCEPT ![c] = add_message(conv[c], "customer", utcnow)]
    /\ turn' = [turn EXCEPT ![c] = [@ EXCEPT !.pc = "processing"]]
    /\ UNCHANGED <<utcnow, meta, sched_pc, inactive_convs, conv_idx,
                   send_result, followups_sent>>
    /\ UNCHANGED nontextvars

\* a handler that leaves the storing of the inbound message to the end of the
\* turn and so never stores it before the pipeline runs
StoreAndCheckBlocked_NoStore(c) ==
    /\ turn[c].pc = "received"
    /\ LET is_blocked == agent_blocked(meta[c]) IN
       turn' = [turn EXCEPT ![c] =
                    IF is_blocked
                    THEN [@ EXCEPT !.pc = "done", !.is_blocked = TRUE,
                                   !.blocked = TRUE, !.response_text = "",
                                   !.status = "ok"]
                    ELSE [@ EXCEPT !.pc = "processing", !.is_blocked = FALSE]]
    /\ UNCHANGED <<utcnow, conv, meta, sched_pc, inactive_convs, conv_idx,
                   send_result, followups_sent>>
    /\ UNCHANGED nontextvars

\* receive_webhook: save the customer message, then the agent_blocked check
StoreAndCheckBlocked(c) ==
    /\ turn[c].pc = "received"
    /\ conv' = [conv EXCEPT ![c] = add_message(conv[c], "customer", utcnow)]
    /\ LET is_blocked == agent_blocked(meta[c]) IN
       turn' = [turn EXCEPT ![c] =
                    IF is_blocked
                    THEN [@ EXCEPT !.pc = "done", !.is_blocked = TRUE,
                                   !.blocked = TRUE, !.response_text = "",
                                   !.status = "ok"]
                    ELSE [@ EXCEPT !.pc = "processing", !.is_blocked = FALSE]]
    /\ UNCHANGED <<utcnow, meta, sched_pc, inactive_convs, conv_idx,
                   send_result, followups_sent>>
    /\ UNCHANGED nontextvars

\* what LLMClient.invoke_json gets back from the model: a JSON object with a
\* response, one without the response key, one with an empty response, or
\* text json.loads rejects
LLMOutputs == {"reply", "no_response_key", "empty", "malformed"}

\* FastResponseAgent.process under BaseAgent.__call__: the fields the node
\* returns for one model output
fast_response(llm_output, lead_type, user_type) ==
    IF llm_output = "malformed"
    THEN [error |-> TRUE, response_text |-> "", lead_score |-> 0,
          lead_status |-> "cold"]
    ELSE [error |-> FALSE,
          response_text |-> IF llm_output = "reply" THEN "reply"
                            ELSE IF llm_output = "no_response_key"
                                 THEN "Hello! How can I help you today?"
                                 ELSE "",
          lead_score |-> get_lead_score(lead_type, user_type),
          lead_status |-> lead_type]

\* receive_webhook from the call of process_message to its return: the
\* workflow runs (context, fast_response, action), the reply and the lead
\* fields are stored; raised = TRUE is process_message raising, which the
\* handler turns into HTTP 500
ProcessMessage(c) ==
    /\ turn[c].pc = "processing"
    /\ \E raised \in BOOLEAN, llm_output \in LLMOutputs,
          lead_type \in TurnLeadTypes :
        LET result == fast_response(llm_output, lead_type, turn[c].user_type) IN
        IF raised
        THEN /\ turn' = [turn EXCEPT ![c] =
                        [@ EXCEPT !.pc = "done", !.invoked = TRUE,
                                  !.status = "500"]]
             /\ UNCHANGED <<conv, meta>>
        ELSE /\ conv' = [conv EXCEPT ![c] =
                        IF result.response_text # ""
                        THEN add_message(conv[c], "agent", utcnow)
                        ELSE conv[c]]
             /\ meta' = [meta EXCEPT ![c] =
                        IF result.lead_score # 0
                        THEN update_customer_metadata(meta[c],
                                [lead_score |-> result.lead_score,
                                 lead_status |-> result.lead_status])
                        ELSE meta[c]]
             /\ turn' = [turn EXCEPT ![c] =
                        [@ EXCEPT !.pc = "done", !.invoked = TRUE,
                                  !.llm_output = llm_output,
                                  !.error = result.error,
                                  !.response_text = result.response_text,
                                  !.dm_sent = (result.response_text # ""),
                                  !.status = "ok"]]
    /\ UNCHANGED <<utcnow, sched_pc, inactive_convs, conv_idx,
                   send_result, followups_sent>>
    /\ UNCHANGED nontextvars

\* block_customer endpoint
BlockCustomer(c) ==
    /\ ~agent_blocked(meta[c])
    /\ meta' = [meta EXCEPT ![c] =
                    update_customer_metadata(meta[c], [agent_blocked |-> TRUE])]
    /\ UNCHANGED <<utcnow, conv, turn, sched_pc, inactive_convs, conv_idx,
                   send_result, followups_sent>>
    /\ UNCHANGED nontextvars

\* unblock_customer endpoint
UnblockCustomer(c) ==
    /\ agent_blocked(meta[c])
    /\ meta' = [meta EXCEPT ![c] =
                    update_customer_metadata(meta[c], [agent_blocked |-> FALSE])]
    /\ UNCHANGED <<utcnow, conv, turn, sched_pc, inactive_convs, conv_idx,
                   send_result, followups_sent>>
    /\ UNCHANGED nontextvars

\* ------------------------------------------------------ followup scheduler
\* _run_loop wakes: _check_client_conversations scans the tenant's records
CheckClientConversations ==
    /\ sched_pc = "sleep"
    /\ \E keys \in KeyOrders :
        inactive_convs' = get_inactive_conversations(keys, conv, utcnow)
    /\ sched_pc' = "process"
    /\ conv_idx' = 1
    /\ send_result' = "none"
    /\ UNCHANGED <<utcnow, conv, meta, turn, followups_sent>>
    /\ UNCHANGED nontextvars

\* the candidate loop is exhausted (or the scan found nothing): back to sleep
EndSweep ==
    /\ sched_pc = "process"
    /\ conv_idx > Len(inactive_convs)
    /\ sched_pc' = "sleep"
    /\ inactive_convs' = <<>>
    /\ conv_idx' = 0
    /\ send_result' = "none"
    /\ UNCHANGED <<utcnow, conv, meta, turn, followups_sent>>
    /\ UNCHANGED nontextvars

\* _process_conversation_followup up to the send: the agent's decision
GenerateFollowup ==
    /\ sched_pc = "process"
    /\ conv_idx <= Len(inactive_convs)
    /\ \E should_send \in BOOLEAN, followup_message \in {"", "followup"} :
        IF should_send /\ followup_message # ""
        THEN /\ sched_pc' = "send"
             /\ conv_idx' = conv_idx
        ELSE /\ sched_pc' = "process"
             /\ conv_idx' = conv_idx + 1
    /\ send_result' = "none"
    /\ UNCHANGED <<utcnow, conv, meta, turn, inactive_convs, followups_sent>>
    /\ UNCHANGED nontextvars

\* a dispatcher that updates the tracking whatever the send returned
SendFollowup_AlwaysTrack ==
    /\ sched_pc = "send"
    /\ LET c == inactive_convs[conv_idx].customer_id IN
       \E result \in {"ok", "error"} :
            /\ send_result' = result
            /\ conv' = [conv EXCEPT ![c] = update_followup_tracking(conv[c], utcnow)]
            /\ IF result # "error"
               THEN followups_sent' = [followups_sent EXCEPT ![c] = @ + 1]
               ELSE UNCHANGED followups_sent
    /\ sched_pc' = "process"
    /\ conv_idx' = conv_idx + 1
    /\ UNCHANGED <<utcnow, meta, turn, inactive_convs>>
    /\ UNCHANGED nontextvars

\* _process_conversation_followup: instagram.send_message returns; tracking is
\* updated when the result carries no error
SendFollowup ==
    /\ sched_pc = "send"
    /\ LET c == inactive_convs[conv_idx].customer_id IN
       \E result \in {"ok", "error"} :
            /\ send_result' = result
            /\ IF result # "error"
               THEN /\ conv' = [conv EXCEPT ![c] =
                                    update_followup_tracking(conv[c], utcnow)]
                    /\ followups_sent' = [followups_sent EXCEPT ![c] = @ + 1]
               ELSE UNCHANGED <<conv, followups_sent>>
    /\ sched_pc' = "process"
    /\ conv_idx' = conv_idx + 1
    /\ UNCHANGED <<utcnow, meta, turn, inactive_convs>>
    /\ UNCHANGED nontextvars

Next ==
    \/ Tick
    \/ \E c \in Customers : ReceiveWebhook(c)
    \/ \E c \in Customers : StoreAndCheckBlocked(c)
    \/ \E c \in Customers : ProcessMessage(c)
    \/ \E c \in Customers : BlockCustomer(c)
    \/ \E c \in Customers : UnblockCustomer(c)
    \/ CheckClientConversations
    \/ EndSweep
    \/ GenerateFollowup
    \/ SendFollowup

Spec == Init /\ [][Next]_vars

\* ------------------------------------------------------------ voice clock
VoiceTick ==
    /\ ticks < MaxTicks
    /\ \E d \in VoiceTickSteps : time_now' = time_now + d
    /\ ticks' = ticks + 1
    /\ UNCHANGED <<followup, scheduled, qual_pc, scheduled_n,
                   poll_pc, current_time, due_followups, due_idx, executed>>
    /\ UNCHANGED outcomes
    /\ UNCHANGED nonvoicevars

\* -------------------------------------------------- qualification, schedule
\* FollowupService.schedule_followup: delay and kind of the followup
delay_minutes(lead_type) ==
    IF lead_type = "warm" THEN followup_delay_warm ELSE followup_delay_cold

followup_type_of(lead_type) ==
    IF lead_type = "warm" THEN "call_and_sms" ELSE "sms_only"

RECURSIVE SumOver(_, _)
SumOver(f, S) ==
    IF S = {} THEN 0
    ELSE LET x == CHOOSE y \in S : TRUE IN f[x] + SumOver(f, S \ {x})

\* qualify_lead: unless the lead is hot, schedule_followup up to and including
\* its record write (hset)
QualifyLead(k, q) ==
    /\ qual_pc[k].pc = "idle"
    /\ SumOver(scheduled_n, Keys) < MaxQualify
    /\ IF q # "hot"
       THEN LET execute_at == time_now + delay_minutes(q) * 60 IN
            /\ followup' = [followup EXCEPT ![k] =
                    [present |-> TRUE, lead_type |-> q,
                     followup_type |-> followup_type_of(q),
                     execute_at |-> execute_at, status |-> "pending"]]
            /\ qual_pc' = [qual_pc EXCEPT ![k] =
                    [pc |-> "zadd", execute_at |-> execute_at]]
            /\ scheduled_n' = [scheduled_n EXCEPT ![k] = @ + 1]
       ELSE UNCHANGED <<followup, qual_pc, scheduled_n>>
    /\ UNCHANGED <<time_now, ticks, scheduled, poll_pc, current_time,
                   due_followups, due_idx, executed>>
    /\ UNCHANGED outcomes
    /\ UNCHANGED nonvoicevars

\* schedule_followup: the index insert (zadd)
ScheduleZAdd(k) ==
    /\ qual_pc[k].pc = "zadd"
    /\ scheduled' = [scheduled EXCEPT ![k] = qual_pc[k].execute_at]
    /\ qual_pc' = [qual_pc EXCEPT ![k] = IdleQual]
    /\ UNCHANGED <<time_now, ticks, followup, scheduled_n,
                   poll_pc, current_time, due_followups, due_idx, executed>>
    /\ UNCHANGED outcomes
    /\ UNCHANGED nonvoicevars

\* ------------------------------------------------------------------ poller
KeyRank(k) == IF k = "k1" THEN 1 ELSE 2

\* zrangebyscore(0, t): members with score in [0, t], by score then member
Before(sc, a, b) ==
    \/ sc[a] < sc[b]
    \/ sc[a] = sc[b] /\ KeyRank(a) < KeyRank(b)

RECURSIVE SortByScore(_, _)
SortByScore(sc, S) ==
    IF S = {} THEN <<>>
    ELSE LET first == CHOOSE a \in S : \A b \in S \ {a} : Before(sc, a, b) IN
         <<first>> \o SortByScore(sc, S \ {first})

zrangebyscore(sc, t) ==
    SortByScore(sc, {k \in Keys : sc[k] # NoTime /\ sc[k] >= 0 /\ sc[k] <= t})

\* execute_pending_followups: read the due members of the index
ExecutePendingFollowups ==
    /\ poll_pc = "sleep"
    /\ current_time' = time_now
    /\ due_followups' = zrangebyscore(scheduled, time_now)
    /\ due_idx' = 1
    /\ poll_pc' = "loop"
    /\ UNCHANGED <<time_now, ticks, followup, scheduled,
                   qual_pc, scheduled_n, executed>>
    /\ outcomes' = <<>>
    /\ UNCHANGED nonvoicevars

\* the loop over the due members is exhausted: sleep until the next sweep
EndPoll ==
    /\ poll_pc = "loop"
    /\ due_idx > Len(due_followups)
    /\ poll_pc' = "sleep"
    /\ current_time' = NoTime
    /\ due_followups' = <<>>
    /\ due_idx' = 0
    /\ UNCHANGED <<time_now, ticks, followup, scheduled,
                   qual_pc, scheduled_n, executed>>
    /\ outcomes' = <<>>
    /\ UNCHANGED nonvoicevars

\* what the body of the loop does with one entry: "skip" (no record, or
\* already completed), "raise" (an exception before the sends, caught by the
\* try around the body), "sent" (send_sms / trigger_outbound_call returned
\* True), "failed" (one of them returned False)
SendOutcomes == {"raise", "sent", "failed"}

\* variant: the try is around the whole loop, an exception ends the sweep
ExecuteFollowup_AbortOnRaise ==
    /\ poll_pc = "loop"
    /\ due_idx <= Len(due_followups)
    /\ LET k == due_followups[due_idx]
           data == followup[k] IN
       IF ~data.present \/ data.status = "completed"
       THEN /\ due_idx' = due_idx + 1
            /\ outcomes' = Append(outcomes, "skip")
            /\ UNCHANGED <<poll_pc, executed, current_time, due_followups>>
       ELSE \E outcome \in SendOutcomes :
            IF outcome = "raise"
            THEN /\ poll_pc' = "sleep"
                 /\ current_time' = NoTime
                 /\ due_followups' = <<>>
                 /\ due_idx' = 0
                 /\ outcomes' = <<>>
                 /\ UNCHANGED executed
            ELSE /\ outcomes' = Append(outcomes, outcome)
                 /\ executed' = [executed EXCEPT ![k] = @ + 1]
                 /\ poll_pc' = "hset"
                 /\ UNCHANGED <<due_idx, current_time, due_followups>>
    /\ UNCHANGED <<time_now, ticks, followup, scheduled, qual_pc, scheduled_n>>
    /\ UNCHANGED nonvoicevars

\* variant: an entry whose send returned False is left pending in the index
ExecuteFollowup_RetryFailed ==
    /\ poll_pc = "loop"
    /\ due_idx <= Len(due_followups)
    /\ LET k == due_followups[due_idx]
           data == followup[k] IN
       IF ~data.present \/ data.status = "completed"
       THEN /\ due_idx' = due_idx + 1
            /\ outcomes' = Append(outcomes, "skip")
            /\ UNCHANGED <<poll_pc, executed>>
       ELSE \E outcome \in SendOutcomes :
            /\ outcomes' = Append(outcomes, outcome)
            /\ IF outcome = "raise"
               THEN /\ due_idx' = due_idx + 1
                    /\ UNCHANGED <<poll_pc, executed>>
               ELSE IF outcome = "failed"
               THEN /\ executed' = [executed EXCEPT ![k] = @ + 1]
                    /\ due_idx' = due_idx + 1
                    /\ UNCHANGED poll_pc
               ELSE /\ executed' = [executed EXCEPT ![k] = @ + 1]
                    /\ poll_pc' = "hset"
                    /\ UNCHANGED due_idx
    /\ UNCHANGED <<time_now, ticks, followup, scheduled,
                   qual_pc, scheduled_n, current_time, due_followups>>
    /\ UNCHANGED nonvoicevars

\* loop body up to the sends: hgetall, the completed check, SMS and call
ExecuteFollowup ==
    /\ poll_pc = "loop"
    /\ due_idx <= Len(due_followups)
    /\ LET k == due_followups[due_idx]
           data == followup[k] IN
       IF ~data.present \/ data.status = "completed"
       THEN /\ due_idx' = due_idx + 1
            /\ outcomes' = Append(outcomes, "skip")
            /\ UNCHANGED <<poll_pc, executed>>
       ELSE \E outcome \in SendOutcomes :
            /\ outcomes' = Append(outcomes, outcome)
            /\ IF outcome = "raise"
               THEN /\ due_idx' = due_idx + 1
                    /\ UNCHANGED <<poll_pc, executed>>
               ELSE /\ executed' = [executed EXCEPT ![k] = @ + 1]
                    /\ poll_pc' = "hset"
                    /\ UNCHANGED due_idx
    /\ UNCHANGED <<time_now, ticks, followup, scheduled,
                   qual_pc, scheduled_n, current_time, due_followups>>
    /\ UNCHANGED nonvoicevars

\* loop body: hset(followup_key, "status", "completed")
MarkCompleted ==
    /\ poll_pc = "hset"
    /\ LET k == due_followups[due_idx] IN
       followup' = [followup EXCEPT ![k].status = "completed"]
    /\ poll_pc' = "zrem"
    /\ UNCHANGED <<time_now, ticks, scheduled, qual_pc,
                   scheduled_n, current_time, due_followups, due_idx, executed>>
    /\ UNCHANGED outcomes
    /\ UNCHANGED nonvoicevars

\* loop body: zrem("followups:scheduled", followup_key)
RemoveScheduled ==
    /\ poll_pc = "zrem"
    /\ LET k == due_followups[due_idx] IN
       scheduled' = [scheduled EXCEPT ![k] = NoTime]
    /\ poll_pc' = "loop"
    /\ due_idx' = due_idx + 1
    /\ UNCHANGED <<time_now, ticks, followup, qual_pc,
                   scheduled_n, current_time, due_followups, executed>>
    /\ UNCHANGED outcomes
    /\ UNCHANGED nonvoicevars

PollerStep ==
    \/ ExecutePendingFollowups
    \/ EndPoll
    \/ ExecuteFollowup
    \/ MarkCompleted
    \/ RemoveScheduled

VoiceNext ==
    \/ VoiceTick
    \/ \E k \in Keys, q \in Qualifications : QualifyLead(k, q)
    \/ \E k \in Keys : ScheduleZAdd(k)
    \/ ExecutePendingFollowups
    \/ EndPoll
    \/ ExecuteFollowup
    \/ MarkCompleted
    \/ RemoveScheduled

VoiceSpec == Init /\ [][VoiceNext]_vars

\* a pass of the loop body that gets as far as the sends
ExecuteIssued ==
    ExecuteFollowup /\ outcomes'[Len(outcomes')] \in {"sent", "failed"}

\* the poller loop keeps running and a started schedule_followup completes
VoiceFairSpec ==
    /\ VoiceSpec
    /\ WF_vars(PollerStep)
    /\ SF_vars(ExecuteIssued)
    /\ \A k \in Keys : WF_vars(ScheduleZAdd(k))

\* ------------------------------------------------------------ agent helpers
\* A reply text is a sequence of tokens: the URL scheme, a host with its
\* slash, a path character, the query mark, a query parameter, a blank.
Tokens ==
    {"https://", "mojo.page/", "cal.com/", "calendly.com/", "x", "?",
     "foo=1", " "}

Texts == UNION {[1..n -> Tokens] : n \in 1..MaxTextLen}

LeadTypes == {"hot", "warm", "cold", "qualified"}
UserTypes == {"new", "returning", "inactive"}

SetMax(S) == CHOOSE x \in S : \A y \in S : y <= x

\* the regex classes [^\s] and [^\s\?\)]
NonSpace(tok) == tok # " "
PathChar(tok) == tok \notin {" ", "?", ")"}

\* (https?://[^\s]*<host>/[^\s\?\)]+) tried at position i: the last position
\* of the greedy match, 0 when the pattern does not match there
MatchEnd(text, i, host) ==
    IF text[i] # "https://" THEN 0
    ELSE LET J == {j \in (i + 1)..(Len(text) - 1) :
                      /\ text[j] = host
                      /\ \A m \in (i + 1)..(j - 1) : NonSpace(text[m])
                      /\ PathChar(text[j + 1])}
         IN IF J = {} THEN 0
            ELSE LET j == SetMax(J)
                     K == {k \in (j + 1)..Len(text) :
                              \A m \in (j + 1)..k : PathChar(text[m])}
                 IN SetMax(K)

\* add_ref: the matched URL with the ref parameter appended
add_ref(url, customer_id) ==
    LET separator == IF \E m \in DOMAIN url : url[m] = "?" THEN "&" ELSE "?"
    IN url \o <<separator, "ref=", customer_id>>

\* re.sub(pattern, add_ref, text): leftmost matches, left to right
RECURSIVE re_sub(_, _, _, _)
re_sub(text, i, host, customer_id) ==
    IF i > Len(text) THEN <<>>
    ELSE LET k == MatchEnd(text, i, host) IN
         IF k = 0
         THEN <<text[i]>> \o re_sub(text, i + 1, host, customer_id)
         ELSE add_ref(SubSeq(text, i, k), customer_id)
                  \o re_sub(text, k + 1, host, customer_id)

\* ActionAgent._inject_booking_ref: the three booking patterns in turn
inject_booking_ref(text, customer_id) ==
    LET t1 == re_sub(text, 1, "mojo.page/", customer_id)
        t2 == re_sub(t1, 1, "cal.com/", customer_id)
    IN re_sub(t2, 1, "calendly.com/", customer_id)

\* what an agent helper is given: the reply text and the customer id of a
\* turn, or the lead type the model returned and the customer's classification
AgentInputs ==
    {[NoAgentCall EXCEPT !.text = text, !.customer_id = c] :
        text \in Texts, c \in Customers}
    \cup
    {[NoAgentCall EXCEPT !.lead_type = lead_type, !.user_type = user_type] :
        lead_type \in LeadTypes, user_type \in UserTypes}

AgentInit ==
    /\ InitRest
    /\ agent_call \in AgentInputs

\* ActionAgent.process injects the ref into the reply text of a turn
InjectBookingRef ==
    /\ agent_call.op = "none"
    /\ agent_call.text # <<>>
    /\ agent_call' = [agent_call EXCEPT
                         !.op = "inject_booking_ref",
                         !.result_text = inject_booking_ref(agent_call.text,
                                                agent_call.customer_id)]
    /\ UNCHANGED <<textvars, voicevars, storevars, procvars>>

\* FastResponseAgent.process computes the lead score of a turn
GetLeadScore ==
    /\ agent_call.op = "none"
    /\ agent_call.lead_type # ""
    /\ agent_call' = [agent_call EXCEPT
                         !.op = "get_lead_score",
                         !.result_score = get_lead_score(agent_call.lead_type,
                                                agent_call.user_type)]
    /\ UNCHANGED <<textvars, voicevars, storevars, procvars>>

AgentNext ==
    \/ InjectBookingRef
    \/ GetLeadScore

AgentSpec == AgentInit /\ [][AgentNext]_vars

\* ------------------------------------------------- conversation store calls
\* The store methods called one after the other on one conversation record and
\* one metadata record, with the timestamp of each message kept.  Time is in
\* hours; the clock reads of one call fall in the same hour.
StoreTickSteps == {12, 180}         \* half a day, seven and a half days
Roles == {"customer", "agent"}
ExplicitTimestamps == {NoTime, 0}   \* timestamp=None, or an explicit instant

StoreTick ==
    /\ store_ticks < MaxStoreTicks
    /\ \E d \in StoreTickSteps : store_now' = store_now + d
    /\ store_ticks' = store_ticks + 1
    /\ UNCHANGED <<store_conv, store_meta, store_call>>
    /\ UNCHANGED <<textvars, voicevars, agentvars, procvars>>

StampedMessage(role, timestamp, is_followup) ==
    [role |-> role, timestamp |-> timestamp, is_followup |-> is_followup]

\* ConversationStore.add_message with the message timestamp kept:
\* "timestamp": timestamp or utcnow(), last_interaction = utcnow()
add_message_stamped(cv, role, timestamp, now) ==
    [cv EXCEPT !.present = TRUE,
               !.messages = Append(cv.messages,
                    StampedMessage(role,
                        IF timestamp # NoTime THEN timestamp ELSE now, FALSE)),
               !.last_interaction = now]

\* FollowupScheduler._update_followup_tracking with the timestamp kept
update_followup_tracking_stamped(cv, now) ==
    IF ~cv.present THEN cv
    ELSE [cv EXCEPT !.followup_count = cv.followup_count + 1,
                    !.last_followup_at = now,
                    !.messages = Append(cv.messages,
                                        StampedMessage("agent", now, TRUE)),
                    !.last_interaction = now]

\* a history that returns the oldest messages: messages[:limit]
get_history_Head(cv, limit) ==
    IF ~cv.present \/ cv.messages = <<>> THEN <<>>
    ELSE IF limit >= Len(cv.messages) THEN cv.messages
    ELSE SubSeq(cv.messages, 1, limit)

\* ConversationStore.get_history: messages[-limit:]
get_history(cv, limit) ==
    IF ~cv.present \/ cv.messages = <<>> THEN <<>>
    ELSE IF limit = 0 \/ limit >= Len(cv.messages) THEN cv.messages
    ELSE SubSeq(cv.messages, Len(cv.messages) - limit + 1, Len(cv.messages))

StoreCall(op) ==
    [NoStoreCall EXCEPT !.op = op, !.at = store_now,
                        !.prev_op = store_call.op]

AddMessage ==
    /\ Len(store_conv.messages) < MaxMessages
    /\ \E role \in Roles, timestamp \in ExplicitTimestamps :
        LET cv == add_message_stamped(store_conv, role, timestamp, store_now) IN
        /\ store_conv' = cv
        /\ store_call' = [StoreCall("add_message") EXCEPT
                             !.message = <<cv.messages[Len(cv.messages)]>>]
    /\ UNCHANGED <<store_now, store_ticks, store_meta>>
    /\ UNCHANGED <<textvars, voicevars, agentvars, procvars>>

UpdateFollowupTracking ==
    /\ store_conv.present
    /\ Len(store_conv.messages) < MaxMessages
    /\ store_conv' = update_followup_tracking_stamped(store_conv, store_now)
    /\ store_call' = StoreCall("update_followup_tracking")
    /\ UNCHANGED <<store_now, store_ticks, store_meta>>
    /\ UNCHANGED <<textvars, voicevars, agentvars, procvars>>

GetHistory ==
    /\ \E limit \in 0..MaxLimit :
        store_call' = [StoreCall("get_history") EXCEPT
                          !.limit = limit,
                          !.message = IF store_call.op = "add_message"
                                      THEN store_call.message ELSE <<>>,
                          !.result_messages = get_history(store_conv, limit)]
    /\ UNCHANGED <<store_now, store_ticks, store_conv, store_meta>>
    /\ UNCHANGED <<textvars, voicevars, agentvars, procvars>>

GetUserType ==
    /\ store_call' = [StoreCall("get_user_type") EXCEPT
                         !.result_type = get_user_type(store_conv, store_now)]
    /\ UNCHANGED <<store_now, store_ticks, store_conv, store_meta>>
    /\ UNCHANGED <<textvars, voicevars, agentvars, procvars>>

StoreNext ==
    \/ StoreTick
    \/ AddMessage
    \/ UpdateFollowupTracking
    \/ GetHistory
    \/ GetUserType

StoreSpec == Init /\ [][StoreNext]_vars

\* ----------------------------------------------------- customer metadata calls
KwargsSets ==
    {[lead_score |-> 80], [lead_score |-> 50],
     [name |-> "A"], [lead_score |-> 80, name |-> "A"],
     [agent_blocked |-> TRUE]}

\* update_customer_metadata: metadata["updated_at"] = utcnow()
stamp_updated_at(md, now) ==
    [k \in (DOMAIN md) \cup {"updated_at"} |->
        IF k = "updated_at" THEN now ELSE md[k]]

UpdateCustomerMetadata ==
    /\ \E kwargs \in KwargsSets :
        /\ store_meta' = stamp_updated_at(
                            update_customer_metadata(store_meta, kwargs),
                            store_now)
        /\ store_call' = [StoreCall("update_customer_metadata") EXCEPT
                             !.kwargs = kwargs,
                             !.repeat =
                                (store_call.op = "update_customer_metadata"
                                    /\ store_call.kwargs = kwargs)]
    /\ UNCHANGED <<store_now, store_ticks, store_conv>>
    /\ UNCHANGED <<textvars, voicevars, agentvars, procvars>>

GetCustomerMetadata ==
    /\ store_call' = StoreCall("get_customer_metadata")
    /\ UNCHANGED <<store_now, store_ticks, store_conv, store_meta>>
    /\ UNCHANGED <<textvars, voicevars, agentvars, procvars>>

MetaNext ==
    \/ StoreTick
    \/ UpdateCustomerMetadata
    \/ GetCustomerMetadata

MetaSpec == Init /\ [][MetaNext]_vars

\* ------------------------------------------- turn pipeline, config pointer
\* the client lookup of receive_webhook / load_client_config
load_client_config(t) == IF t \in ConfiguredTenants THEN t ELSE NoConfig

\* "if config: set_current_config(config)"
set_if_config(config, pointer) == IF config # NoConfig THEN config ELSE pointer

\* workflow.invoke runs without suspension: while one request is inside it, no
\* other coroutine of the process runs
InvokeRunning == \E s \in Slots : request[s].pc = "invoke"

\* receive_webhook up to its first suspension: client lookup, pointer update,
\* inbound message stored, then the awaited profile / mark_seen / typing_on
WebhookLookup(s, t) ==
    /\ request[s].pc \in {"idle", "done"}
    /\ ~InvokeRunning
    /\ current_config' = set_if_config(load_client_config(t), current_config)
    /\ request' = [request EXCEPT ![s] =
            [IdleRequest EXCEPT !.pc = "await", !.tenant = t]]
    /\ UNCHANGED followup_read
    /\ UNCHANGED <<sweepvars, retryvars, logvars, nonprocvars>>

\* one node of the graph: BaseAgent.__call__ runs process() and turns an
\* exception into the state update {"error": ...}; FastResponseAgent.process
\* starts with get_current_config()
RunStage(s) ==
    /\ \/ request[s].pc = "await" /\ ~InvokeRunning
       \/ request[s].pc = "invoke"
    /\ LET n == Len(request[s].stages) + 1
           name == StageNames[n] IN
       \E failed \in BOOLEAN :
          request' = [request EXCEPT ![s] =
              [@ EXCEPT !.stages = Append(@, name),
                        !.error = IF failed THEN name ELSE @,
                        !.config_read = IF name = "fast_response"
                                        THEN current_config ELSE @,
                        !.pc = IF n = Len(StageNames)
                               THEN "respond" ELSE "invoke"]]
    /\ UNCHANGED <<current_config, followup_read>>
    /\ UNCHANGED <<sweepvars, retryvars, logvars, nonprocvars>>

\* receive_webhook after process_message: reply stored, {"status": "ok"}
Respond(s) ==
    /\ request[s].pc = "respond"
    /\ request' = [request EXCEPT ![s] = [@ EXCEPT !.pc = "done",
                                                   !.status = "ok"]]
    /\ UNCHANGED <<current_config, followup_read>>
    /\ UNCHANGED <<sweepvars, retryvars, logvars, nonprocvars>>

\* an exception outside the graph nodes reaches the handler's except:
\* HTTPException(status_code=500)
RespondError(s) ==
    /\ request[s].pc = "await"
    /\ ~InvokeRunning
    /\ request' = [request EXCEPT ![s] = [@ EXCEPT !.pc = "done",
                                                   !.status = "500"]]
    /\ UNCHANGED <<current_config, followup_read>>
    /\ UNCHANGED <<sweepvars, retryvars, logvars, nonprocvars>>

\* the scheduler's followup prompt for a listed client:
\* _check_client_conversations and generate_followup_for_conversation set the
\* pointer if the client has a config, FollowupAgent.process reads it
FollowupGenerate(t) ==
    /\ ~InvokeRunning
    /\ current_config' = set_if_config(load_client_config(t), current_config)
    /\ followup_read' = [tenant |-> t, config |-> current_config']
    /\ UNCHANGED request
    /\ UNCHANGED <<sweepvars, retryvars, logvars, nonprocvars>>

PipelineNext ==
    \/ \E s \in Slots, t \in Tenants : WebhookLookup(s, t)
    \/ \E s \in Slots : RunStage(s)
    \/ \E s \in Slots : Respond(s)
    \/ \E s \in Slots : RespondError(s)
    \/ \E t \in ConfiguredTenants : FollowupGenerate(t)

PipelineSpec == Init /\ [][PipelineNext]_vars

\* ------------------------------------------- scheduler sweep and its stop
SweepOrders ==
    {o \in [1..Cardinality(SweepCustomers) -> SweepCustomers] :
        \A i, j \in DOMAIN o : i # j => o[i] # o[j]}

\* the for loop of _get_inactive_conversations over keys i.. : "raise" stands
\* for the exception of json.loads, which leaves the loop
RECURSIVE ScanRaw(_, _, _)
ScanRaw(keys, i, raw) ==
    IF i > Len(keys) THEN <<>>
    ELSE LET kind == raw[keys[i]]
             rest == ScanRaw(keys, i + 1, raw) IN
         IF kind = "garbage" THEN <<"raise">>
         ELSE IF kind = "eligible" THEN <<keys[i]>> \o rest
         ELSE rest

\* _get_inactive_conversations: the try around the whole scan returns []
get_inactive_raw(keys, raw) ==
    LET found == ScanRaw(keys, 1, raw) IN
    IF \E i \in DOMAIN found : found[i] = "raise" THEN <<>> ELSE found

\* a webhook turn or anything else writing a conversation key between sweeps
PutRecord(u, kind) ==
    /\ sweep.pc = "sleep"
    /\ scheduler.task = "alive"
    /\ raw_records[u] # kind
    /\ raw_records' = [raw_records EXCEPT ![u] = kind]
    /\ UNCHANGED <<sweep, scheduler, pipevars>>
    /\ UNCHANGED <<retryvars, logvars, nonprocvars>>

\* _run_loop wakes up with _running set; _check_client_conversations scans
SweepScan ==
    /\ sweep.pc = "sleep"
    /\ scheduler.task = "alive"
    /\ scheduler.running
    /\ \E keys \in SweepOrders :
          sweep' = [pc |-> "process",
                    eligible |-> get_inactive_raw(keys, raw_records),
                    idx |-> 1, processed |-> <<>>]
    /\ UNCHANGED <<raw_records, scheduler, pipevars>>
    /\ UNCHANGED <<retryvars, logvars, nonprocvars>>

\* _process_conversation_followup up to the send: generation raises (and is
\* caught), the agent declines, or a message is handed to send_message
SweepGenerate ==
    /\ sweep.pc = "process"
    /\ sweep.idx <= Len(sweep.eligible)
    /\ \E outcome \in {"raise", "skip", "send"} :
          sweep' = IF outcome = "send"
                   THEN [sweep EXCEPT !.pc = "send"]
                   ELSE [sweep EXCEPT
                            !.processed = Append(@, [customer_id |-> sweep.eligible[sweep.idx],
                                                     outcome |-> outcome]),
                            !.idx = @ + 1]
    /\ UNCHANGED <<raw_records, scheduler, pipevars>>
    /\ UNCHANGED <<retryvars, logvars, nonprocvars>>

\* send_message returns: tracking update unless the result carries an error
SweepSend ==
    /\ sweep.pc = "send"
    /\ scheduler.task = "alive"
    /\ \E result \in {"tracked", "send_error"} :
          sweep' = [sweep EXCEPT
                       !.pc = "process",
                       !.processed = Append(@, [customer_id |-> sweep.eligible[sweep.idx],
                                                outcome |-> result]),
                       !.idx = @ + 1]
    /\ UNCHANGED <<raw_records, scheduler, pipevars>>
    /\ UNCHANGED <<retryvars, logvars, nonprocvars>>

\* the candidate loop is exhausted: asyncio.sleep(CHECK_INTERVAL_SECONDS);
\* processed keeps the log of the sweep until the next scan
SweepEnd ==
    /\ sweep.pc = "process"
    /\ sweep.idx > Len(sweep.eligible)
    /\ sweep' = [sweep EXCEPT !.pc = "sleep", !.eligible = <<>>, !.idx = 0]
    /\ UNCHANGED <<raw_records, scheduler, pipevars>>
    /\ UNCHANGED <<retryvars, logvars, nonprocvars>>

\* FollowupScheduler.stop: clears the flag, cancels the task and awaits it.
\* The task is suspended in asyncio.sleep or in the await of send_message;
\* CancelledError is raised there and no "except Exception" catches it
Stop ==
    /\ scheduler.task = "alive"
    /\ sweep.pc \in {"sleep", "send"}
    /\ scheduler' = [running |-> FALSE, task |-> "cancelled",
                     stop_returned |-> TRUE]
    /\ UNCHANGED <<raw_records, sweep, pipevars>>
    /\ UNCHANGED <<retryvars, logvars, nonprocvars>>

SweepNext ==
    \/ \E u \in SweepCustomers, kind \in RecordKinds : PutRecord(u, kind)
    \/ SweepScan
    \/ SweepGenerate
    \/ SweepSend
    \/ SweepEnd
    \/ Stop

SweepSpec == Init /\ [][SweepNext]_vars

\* ------------------------------------------------- request with retry
RECURSIVE Pow2(_)
Pow2(n) == IF n = 0 THEN 1 ELSE 2 * Pow2(n - 1)

\* a loop that catches every failure of an attempt, error responses included
retryable_Any(outcome) == outcome # "response_200"

\* the except clause of _request_with_retry
retryable(outcome) == outcome \in ConnectionFailures

\* send_message (or another caller) enters _request_with_retry
RequestStart(method) ==
    /\ http.pc \in {"idle", "done"}
    /\ http' = [NoRequest EXCEPT !.pc = "attempt", !.method = method]
    /\ UNCHANGED <<pipevars, sweepvars, logvars>>
    /\ UNCHANGED nonprocvars

\* one pass of "for attempt in range(MAX_RETRIES)": the request, then return,
\* propagate, or compute the backoff
RequestAttempt ==
    /\ http.pc = "attempt"
    /\ http.attempt < MAX_RETRIES
    /\ \E drawn \in AttemptOutcomes :
        LET outcome == IF http.method \in {"post", "get"}
                       THEN drawn ELSE "ValueError" IN
        http' = [http EXCEPT
            !.outcomes = Append(@, outcome),
            !.result = IF outcome \in {"response_200", "response_error"}
                       THEN outcome ELSE @,
            !.attempt = IF retryable(outcome) /\ http.attempt >= MAX_RETRIES - 1
                        THEN @ + 1 ELSE @,
            !.pc = IF retryable(outcome)
                   THEN IF http.attempt < MAX_RETRIES - 1
                        THEN "backoff" ELSE "raised"
                   ELSE IF outcome \in {"response_200", "response_error"}
                        THEN "returned" ELSE "raised"]
    /\ UNCHANGED <<pipevars, sweepvars, logvars>>
    /\ UNCHANGED nonprocvars

\* await asyncio.sleep(INITIAL_BACKOFF * (2 ** attempt)), then the next pass
RequestBackoff ==
    /\ http.pc = "backoff"
    /\ http' = [http EXCEPT
            !.backoffs = Append(@, INITIAL_BACKOFF * Pow2(http.attempt)),
            !.attempt = @ + 1,
            !.pc = "attempt"]
    /\ UNCHANGED <<pipevars, sweepvars, logvars>>
    /\ UNCHANGED nonprocvars

\* send_message: response.json() of whatever came back, or {"error": str(e)}
SendMessageReturn ==
    /\ http.pc \in {"returned", "raised"}
    /\ http' = [http EXCEPT
            !.pc = "done",
            !.result = IF http.pc = "raised" THEN "error" ELSE @]
    /\ UNCHANGED <<pipevars, sweepvars, logvars>>
    /\ UNCHANGED nonprocvars

RetryNext ==
    \/ \E method \in Methods : RequestStart(method)
    \/ RequestAttempt
    \/ RequestBackoff
    \/ SendMessageReturn

RetrySpec == Init /\ [][RetryNext]_vars

\* --------------------------------------- concurrent writers of one log
\* a writer that appends to the record it read when its turn began
loaded_Stale(w) == writer[w].snapshot

\* data = r.get(key) inside add_message: the record as stored now
loaded(w) == log

\* add_message on a loaded record: create if missing, append
append_message(cv, msg) ==
    [present |-> TRUE, messages |-> Append(cv.messages, msg)]

\* _update_followup_tracking on a loaded record: nothing without a record
append_followup(cv, msg) ==
    IF ~cv.present THEN cv
    ELSE [cv EXCEPT !.messages = Append(@, msg)]

\* receive_webhook: get_user_type reads the record, then the handler awaits
\* the profile lookup
WriterStart(w) ==
    /\ writer[w].pc \in {"idle", "done"}
    /\ Len(log.messages) < MaxLogLen
    /\ writer' = [writer EXCEPT ![w] = [pc |-> "inbound", snapshot |-> log]]
    /\ UNCHANGED <<log, dispatch_pc>>
    /\ UNCHANGED <<pipevars, sweepvars, retryvars, nonprocvars>>

\* receive_webhook: add_message(role="customer"), then the awaits up to and
\* including process_message
WriterStoreInbound(w) ==
    /\ writer[w].pc = "inbound"
    /\ log' = append_message(loaded(w), LogMessage("customer", w, FALSE))
    /\ writer' = [writer EXCEPT ![w].pc = "reply"]
    /\ UNCHANGED dispatch_pc
    /\ UNCHANGED <<pipevars, sweepvars, retryvars, nonprocvars>>

\* receive_webhook: add_message(role="agent") when response_text is not empty
WriterStoreReply(w) ==
    /\ writer[w].pc = "reply"
    /\ \E response_text \in {"", "reply"} :
          log' = IF response_text # ""
                 THEN append_message(loaded(w), LogMessage("agent", w, FALSE))
                 ELSE log
    /\ writer' = [writer EXCEPT ![w].pc = "done"]
    /\ UNCHANGED dispatch_pc
    /\ UNCHANGED <<pipevars, sweepvars, retryvars, nonprocvars>>

\* _process_conversation_followup: await instagram.send_message for this
\* conversation (the scan found its record)
DispatchSend ==
    /\ dispatch_pc = "idle"
    /\ log.present
    /\ Len(log.messages) < MaxLogLen
    /\ dispatch_pc' = "send"
    /\ UNCHANGED <<log, writer>>
    /\ UNCHANGED <<pipevars, sweepvars, retryvars, nonprocvars>>

\* the send returned: _update_followup_tracking unless it carries an error
DispatchTrack ==
    /\ dispatch_pc = "send"
    /\ \E result \in {"ok", "error"} :
          log' = IF result = "ok"
                 THEN append_followup(log, LogMessage("agent", "followup", TRUE))
                 ELSE log
    /\ dispatch_pc' = "idle"
    /\ UNCHANGED writer
    /\ UNCHANGED <<pipevars, sweepvars, retryvars, nonprocvars>>

LogNext ==
    \/ \E w \in Slots : WriterStart(w)
    \/ \E w \in Slots : WriterStoreInbound(w)
    \/ \E w \in Slots : WriterStoreReply(w)
    \/ DispatchSend
    \/ DispatchTrack

LogSpec == Init /\ [][LogNext]_vars

TypeOK ==
    /\ utcnow \in 0..MaxTime
    /\ sched_pc \in {"sleep", "process", "send"}
    /\ poll_pc \in {"sleep", "loop", "hset", "zrem"}

\* ================================================================ claims
LastMessage(cv) == cv.messages[Len(cv.messages)]

\* the step in which a scan puts its candidates in inactive_convs
ScanStep == sched_pc = "sleep" /\ sched_pc' = "process"

SelectedByScan(c) ==
    \E i \in DOMAIN inactive_convs' : inactive_convs'[i].customer_id = c

\* a scan has just run and found no candidate
ScannedNothing ==
    sched_pc = "process" /\ conv_idx = 1 /\ inactive_convs = <<>>

C2_CustomerLastNeverSelected ==
    [][ScanStep =>
          \A c \in Customers :
              (conv[c].messages # <<>> /\ LastMessage(conv[c]).role = "customer")
                  => ~SelectedByScan(c)]_vars

\* C2 witness: a scan found nothing although the conversation is inactive
\* long enough and below the maximum: the customer wrote last.
C2_Witness ==
    \E c \in Customers :
        /\ ScannedNothing
        /\ conv[c].messages # <<>>
        /\ LastMessage(conv[c]).role = "customer"
        /\ conv[c].followup_count < MAX_FOLLOWUPS
        /\ turn[c].pc = "done"
        /\ utcnow - conv[c].last_interaction >= FIRST_FOLLOWUP_HOURS

\* C3: a conversation with followup_count = 1 is selected only when at least
\* SECOND_FOLLOWUP_HOURS have passed since last_followup_at, even when its
\* inactivity exceeds FIRST_FOLLOWUP_HOURS.
C3_SecondFollowupNeedsSecondTier ==
    [][ScanStep =>
          \A c \in Customers :
              (conv[c].followup_count = 1 /\ SelectedByScan(c))
                  => utcnow - conv[c].last_followup_at >= SECOND_FOLLOWUP_HOURS]_vars

\* C3 witness: one followup sent, the agent wrote last, inactivity is past the
\* first tier but the second tier is not reached: the scan found nothing.
C3_Witness ==
    \E c \in Customers :
        /\ ScannedNothing
        /\ conv[c].followup_count = 1
        /\ LastMessage(conv[c]).role = "agent"
        /\ utcnow - conv[c].last_interaction >= FIRST_FOLLOWUP_HOURS
        /\ utcnow - conv[c].last_followup_at < SECOND_FOLLOWUP_HOURS

\* C4: while agent_blocked is true for a customer, no scan selects the
\* customer's conversation and no followup is sent to the customer.
C4_BlockedNeverFollowedUp ==
    [][\A c \in Customers :
          agent_blocked(meta[c]) =>
              /\ (ScanStep => ~SelectedByScan(c))
              /\ followups_sent'[c] = followups_sent[c]]_vars

\* C5: when the handler finds agent_blocked true, the turn ends there with a
\* result that has no response text and is marked blocked; process_message is
\* not invoked and nothing but the customer message is appended.
C5_BlockedTurnSkipped ==
    [][\A c \in Customers :
          (turn[c].pc = "received" /\ turn'[c].pc # "received"
                /\ agent_blocked(meta[c]))
              => /\ turn'[c].pc = "done"
                 /\ turn'[c].blocked
                 /\ turn'[c].response_text = ""
                 /\ ~turn'[c].invoked
                 /\ conv'[c].messages =
                        Append(conv[c].messages, Message("customer", FALSE))]_vars

\* C5 witness: a turn of a blocked customer has ended as skipped.
C5_Witness ==
    \E c \in Customers :
        /\ turn[c].pc = "done"
        /\ turn[c].is_blocked
        /\ turn[c].blocked
        /\ ~turn[c].invoked
        /\ agent_blocked(meta[c])
        /\ LastMessage(conv[c]).role = "customer"

\* C9: when the send of a followup returns an error, the conversation record
\* is left as it was, and a conversation not written since the scan stays
\* eligible at every later time.
C9_SendErrorLeavesConversation ==
    [][(sched_pc = "send" /\ send_result' = "error") =>
          LET cand == inactive_convs[conv_idx]
              c == cand.customer_id IN
          /\ conv'[c] = conv[c]
          /\ followups_sent'[c] = followups_sent[c]
          /\ (conv[c].messages = cand.messages =>
                \A t \in utcnow..MaxTime : Eligible(conv'[c], t))]_vars

\* C9 witness: a send has failed and the candidate is still eligible.
C9_Witness ==
    /\ send_result = "error"
    /\ conv_idx >= 2
    /\ LET cand == inactive_convs[conv_idx - 1]
           c == cand.customer_id IN
       /\ conv[c].messages = cand.messages
       /\ conv[c].followup_count = cand.followup_count
       /\ Eligible(conv[c], utcnow)

\* C10: when the send of a followup is confirmed, the dispatcher leaves the
\* conversation with followup_count one higher, last_followup_at set, and a
\* new last message of role agent flagged is_followup.
C10_ConfirmedSendTracked ==
    [][(sched_pc = "send" /\ send_result' = "ok") =>
          LET c == inactive_convs[conv_idx].customer_id IN
          /\ conv'[c].followup_count = conv[c].followup_count + 1
          /\ conv'[c].last_followup_at = utcnow
          /\ conv'[c].last_followup_at # NoTime
          /\ conv'[c].messages =
                Append(conv[c].messages, [role |-> "agent", is_followup |-> TRUE])]_vars

\* C10 witness: the first followup of a conversation has been sent and tracked.
C10_Witness ==
    /\ send_result = "ok"
    /\ conv_idx >= 2
    /\ LET c == inactive_convs[conv_idx - 1].customer_id IN
       /\ conv[c].followup_count = 1
       /\ conv[c].last_followup_at # NoTime
       /\ LastMessage(conv[c]).is_followup
       /\ LastMessage(conv[c]).role = "agent"

PipelineFailed(t) == t.invoked /\ (t.error \/ t.status = "500")

HasCustomerMessage(cv) ==
    \E i \in DOMAIN cv.messages : cv.messages[i].role = "customer"

C13_MalformedOutputFallback ==
    [][\A c \in Customers :
          (turn[c].pc = "processing" /\ turn'[c].llm_output = "malformed")
              => /\ turn'[c].pc = "done"
                 /\ turn'[c].status = "ok"
                 /\ turn'[c].response_text # ""
                 /\ turn'[c].dm_sent
                 /\ turn'[c].error]_vars

\* C14: a first inbound message for a customer with no stored conversation is
\* classified as new, and when that turn completes with a reply the
\* conversation holds exactly the customer message followed by the agent
\* reply, with followup_count 0.
C14_NewCustomerTurn ==
    [][\A c \in Customers :
          /\ (turn'[c].pc = "received" /\ turn[c].pc # "received"
                /\ ~conv[c].present)
                => turn'[c].user_type = "new"
          /\ (turn[c].pc = "processing" /\ turn'[c].pc = "done"
                /\ turn[c].user_type = "new" /\ turn'[c].response_text # "")
                => /\ conv'[c].messages =
                        <<Message("customer", FALSE), Message("agent", FALSE)>>
                   /\ conv'[c].followup_count = 0]_vars

\* C14 witness: the turn of a new customer has completed with a reply.
C14_Witness ==
    \E c \in Customers :
        /\ turn[c].pc = "done"
        /\ turn[c].user_type = "new"
        /\ turn[c].response_text = "reply"
        /\ Len(conv[c].messages) = 2
        /\ conv[c].followup_count = 0

BookingHosts == {"mojo.page/", "cal.com/", "calendly.com/"}

HasQuery(text) == \E i \in DOMAIN text : text[i] = "?"

\* the text is one booking URL: scheme, booking host, path, optional query
BookingUrl(text) ==
    /\ Len(text) >= 3
    /\ text[1] = "https://"
    /\ text[2] \in BookingHosts
    /\ \E p \in 3..Len(text) :
        /\ \A m \in 3..p : text[m] = "x"
        /\ \/ p = Len(text)
           \/ /\ p + 2 <= Len(text)
              /\ text[p + 1] = "?"
              /\ \A m \in (p + 2)..Len(text) : text[m] = "foo=1"

\* C17: ref injection turns a booking URL into the same URL with
\* ref=<customer_id> added as a query parameter, joined with ? when the URL
\* has no query string and appended with & after the existing query string
\* when it has one.
C17_BookingRefInjected ==
    (agent_call.op = "inject_booking_ref" /\ BookingUrl(agent_call.text))
        => agent_call.result_text =
                agent_call.text
                    \o <<IF HasQuery(agent_call.text) THEN "&" ELSE "?",
                         "ref=", agent_call.customer_id>>

\* C18: for lead_type hot, warm or cold and any classification, the lead score
\* is the base score (hot 80, warm 50, cold 20) plus 10 exactly when the
\* classification is returning, and lies in 0..100.
C18_LeadScore ==
    (agent_call.op = "get_lead_score"
            /\ agent_call.lead_type \in {"hot", "warm", "cold"})
        => LET base == IF agent_call.lead_type = "hot" THEN 80
                       ELSE IF agent_call.lead_type = "warm" THEN 50 ELSE 20
               bonus == IF agent_call.user_type = "returning" THEN 10 ELSE 0
           IN /\ agent_call.result_score = base + bonus
              /\ agent_call.result_score \in 0..100

\* C18 witness: the score of a hot lead of a returning customer was computed.
C18_Witness ==
    /\ agent_call.op = "get_lead_score"
    /\ agent_call.lead_type = "hot"
    /\ agent_call.user_type = "returning"
    /\ agent_call.result_score = 90

\* the last min(n, Len(msgs)) messages of a log
LastN(msgs, n) ==
    IF n >= Len(msgs) THEN msgs ELSE SubSeq(msgs, Len(msgs) - n + 1, Len(msgs))

\* C15: add_message followed by get_history(limit = N), N >= 1, returns a
\* sequence whose last element is the appended message, and the returned
\* messages are the last N of the log in insertion order.
C15_AppendThenHistory ==
    [][(store_call'.op = "get_history" /\ store_now' = store_now
            /\ store_call.op = "add_message" /\ store_call'.limit >= 1)
          => LET r == store_call'.result_messages IN
             /\ r # <<>>
             /\ <<r[Len(r)]>> = store_call.message
             /\ r = LastN(store_conv.messages, store_call'.limit)]_vars

\* C15 witness: after an append to a log of two messages, get_history(1)
\* returned the appended message alone.
C15_Witness ==
    /\ store_call.op = "get_history"
    /\ store_call.prev_op = "add_message"
    /\ store_call.limit = 1
    /\ Len(store_conv.messages) = 2
    /\ store_call.result_messages = store_call.message
    /\ store_call.result_messages = <<store_conv.messages[2]>>

\* a metadata record without its write stamp
WithoutUpdatedAt(md) == [k \in (DOMAIN md) \ {"updated_at"} |-> md[k]]

\* C16: merging the same fields twice in a row, with no other write in
\* between, leaves the record as merging once did (updated_at aside); supplied
\* fields overwrite and fields not supplied keep their prior values.
C16_MetadataMergeIdempotent ==
    [][(store_call'.op = "update_customer_metadata" /\ store_now' = store_now)
          => LET kwargs == store_call'.kwargs IN
             /\ \A k \in DOMAIN kwargs :
                    k \in DOMAIN store_meta' /\ store_meta'[k] = kwargs[k]
             /\ \A k \in (DOMAIN store_meta) \ ((DOMAIN kwargs) \cup {"updated_at"}) :
                    k \in DOMAIN store_meta' /\ store_meta'[k] = store_meta[k]
             /\ (store_call.op = "update_customer_metadata"
                    /\ store_call.kwargs = kwargs)
                  => WithoutUpdatedAt(store_meta') = WithoutUpdatedAt(store_meta)]_vars

\* C16 witness: the same fields were merged a second time, at a later hour,
\* into a record that holds another field as well.
C16_Witness ==
    /\ store_call.op = "update_customer_metadata"
    /\ store_call.repeat
    /\ store_call.kwargs = [lead_score |-> 80]
    /\ "name" \in DOMAIN store_meta
    /\ store_meta["lead_score"] = 80
    /\ store_meta["updated_at"] = store_now
    /\ store_now > 0

\* C19: get_user_type returns new when the conversation has no messages,
\* returning when it has messages and last_interaction is within 7 days,
\* inactive when last_interaction is older than 7 days; it changes no stored
\* state.
C19_ClassifyUser ==
    [][(store_call'.op = "get_user_type" /\ store_now' = store_now)
          => /\ store_conv' = store_conv
             /\ store_meta' = store_meta
             /\ store_call'.result_type =
                    IF store_conv.messages = <<>> THEN "new"
                    ELSE IF store_now - store_conv.last_interaction > 7 * 24
                         THEN "inactive"
                         ELSE "returning"]_vars

\* C20: in a conversation with messages, last_interaction equals the
\* timestamp of the last message of the log.
C20_LastInteractionIsLastTimestamp ==
    store_conv.messages # <<>>
        => store_conv.last_interaction =
                store_conv.messages[Len(store_conv.messages)].timestamp

\* the step in which the poller executes the SMS/call of entry k
Executes(k) == executed'[k] = executed[k] + 1

\* C6: over any sequence of qualifications and sweeps, the action of
\* an entry is executed at most once, and its status never goes back from
\* completed to pending.
C6_ExecutedAtMostOncePerKey ==
    [][\A k \in Keys :
          /\ executed'[k] <= 1
          /\ ~(followup[k].status = "completed" /\ followup'[k].status = "pending")]_vars

\* C7: no sweep executes an entry whose due time (execute_at) is later than
\* the time of that sweep.
C7_NotExecutedBeforeDue ==
    [][\A k \in Keys :
          Executes(k) => followup[k].execute_at <= current_time]_vars

\* C8: if the poller keeps running, an entry that is pending and due does not
\* stay so: it is eventually completed and out of the due-time index (or a new
\* qualification has moved its due time into the future again).
C8_DueEntryEventuallyCompleted ==
    \A k \in Keys :
        (followup[k].present /\ followup[k].status = "pending"
            /\ followup[k].execute_at <= time_now)
        ~> \/ followup[k].status = "completed" /\ scheduled[k] = NoTime
           \/ followup[k].execute_at > time_now

\* C21: every entry of the due-time index, and every stored followup record,
\* has lead_type warm or cold; a qualification of hot stores nothing.
C21_IndexOnlyWarmCold ==
    \A k \in Keys :
        (scheduled[k] # NoTime \/ followup[k].present)
            => followup[k].lead_type \in {"warm", "cold"}

\* the entry the sweep in progress is working on
CurrentEntry == due_followups[due_idx]

\* C23: an exception on one due entry moves the sweep to the next entry, the
\* sweep ends only after every due entry has been visited, and at its end every
\* entry whose sends were issued is completed (or was scheduled anew since).
C23_SweepContinuesAfterFailure ==
    [][/\ (Len(outcomes') = Len(outcomes) + 1
              /\ outcomes'[Len(outcomes')] = "raise")
          => /\ poll_pc' = "loop"
             /\ due_idx' = due_idx + 1
             /\ due_followups' = due_followups
       /\ (poll_pc = "loop" /\ poll_pc' = "sleep")
          => /\ Len(outcomes) = Len(due_followups)
             /\ \A i \in 1..Len(due_followups) :
                   outcomes[i] \in {"sent", "failed"}
                   => \/ followup[due_followups[i]].status = "completed"
                      \/ followup[due_followups[i]].execute_at > current_time]_vars

\* C23 witness: the first of two due entries raised, the second was executed,
\* marked completed and removed, and the sweep is at its end
C23_Witness ==
    /\ poll_pc = "loop"
    /\ Len(due_followups) = 2
    /\ due_idx > Len(due_followups)
    /\ outcomes = <<"raise", "sent">>
    /\ followup[due_followups[1]].status = "pending"
    /\ followup[due_followups[2]].status = "completed"
    /\ scheduled[due_followups[2]] = NoTime

\* C29: once the sweep is asleep and no schedule_followup is between its
\* record write and its index insert, no member of the due-time index has a
\* completed record (such a member is skipped by every later sweep and never
\* removed).
C29_NoCompletedMemberInIndex ==
    (poll_pc = "sleep" /\ \A k \in Keys : qual_pc[k].pc = "idle")
        => \A k \in Keys :
              ~(scheduled[k] # NoTime /\ followup[k].status = "completed")

\* C30: an execution attempt whose send reported failure goes on to the
\* completed mark and the index removal like a successful one, and no entry is
\* executed more often than it was scheduled.
C30_FailedDeliveryNotRetried ==
    [][/\ \A k \in Keys :
             (Executes(k) /\ outcomes'[Len(outcomes')] = "failed")
                => poll_pc' = "hset"
       /\ (poll_pc = "hset" /\ poll_pc' # "hset")
             => /\ poll_pc' = "zrem"
                /\ followup'[CurrentEntry].status = "completed"
       /\ (poll_pc = "zrem" /\ poll_pc' # "zrem")
             => /\ poll_pc' = "loop"
                /\ scheduled'[CurrentEntry] = NoTime
       /\ \A k \in Keys : executed'[k] <= scheduled_n'[k]]_vars

\* C30 witness: the only delivery of the entry failed, and the sweep has
\* marked it completed and removed it from the index
C30_Witness ==
    \E k \in Keys :
        /\ poll_pc = "loop"
        /\ due_idx = 2
        /\ due_followups[1] = k
        /\ outcomes = <<"failed">>
        /\ executed[k] = 1
        /\ followup[k].status = "completed"
        /\ scheduled[k] = NoTime

IsPrefix(a, b) == Len(a) <= Len(b) /\ SubSeq(b, 1, Len(a)) = a

\* C24: the stages of a turn run in the order context, fast_response, action,
\* each at most once; once a stage has failed no further stage runs, and the
\* turn does not answer its caller with success.
C24_StagesInOrderAbortOnFailure ==
    [][\A s \in Slots :
          /\ IsPrefix(request'[s].stages, StageNames)
          /\ ~(request[s].error # "none"
                 /\ Len(request'[s].stages) > Len(request[s].stages))
          /\ (request'[s].pc = "done" /\ request'[s].error # "none")
                => request'[s].status # "ok"]_vars

\* C28: the configuration a reply prompt or a followup prompt is built from
\* is the one of the tenant the prompt is for (none, i.e. the default
\* context, for a tenant without a stored configuration).
C28_GeneratorReadsOwnTenantConfig ==
    /\ \A s \in Slots :
          request[s].config_read # Unread
             => request[s].config_read = load_client_config(request[s].tenant)
    /\ followup_read.config # Unread
          => followup_read.config = load_client_config(followup_read.tenant)

\* customers the sweep in progress has processed, whatever the outcome
ProcessedCustomers == {sweep.processed[i].customer_id : i \in DOMAIN sweep.processed}

\* C22: at the end of a sweep every conversation whose record passes all
\* checks has been selected and processed, whatever other records hold and
\* however the processing of other candidates went.
C22_EligibleProcessedDespiteFailures ==
    [][(sweep.pc = "process" /\ sweep'.pc = "sleep")
          => \A u \in SweepCustomers :
                raw_records[u] = "eligible" => u \in ProcessedCustomers]_vars

\* C25: a stop never ends a sweep in progress (a followup handed to
\* send_message gets its result handled), and after stop has returned no
\* sweep starts.
C25_StopDoesNotInterruptSweep ==
    [][/\ (sweep.pc # "sleep" /\ scheduler.task = "alive")
             => scheduler'.task = "alive"
       /\ scheduler.stop_returned => sweep' = sweep]_vars

\* C26: a call makes at most MAX_RETRIES attempts, every attempt but the last
\* ended in a connection-level failure, the sleeps between attempts are
\* INITIAL_BACKOFF, 2 * INITIAL_BACKOFF, ..., and a response, error status
\* included, ends the call with that response.
C26_BoundedRetryOnConnectionFailureOnly ==
    /\ Len(http.outcomes) <= MAX_RETRIES
    /\ http.attempt <= MAX_RETRIES
    /\ \A i \in DOMAIN http.outcomes :
          i < Len(http.outcomes) => http.outcomes[i] \in ConnectionFailures
    /\ Len(http.backoffs) <= MAX_RETRIES - 1
    /\ \A i \in DOMAIN http.backoffs :
          /\ http.backoffs[i] = INITIAL_BACKOFF * Pow2(i - 1)
          /\ i > 1 => http.backoffs[i] = 2 * http.backoffs[i - 1]
    /\ \A i \in DOMAIN http.outcomes :
          http.outcomes[i] = "response_error"
             => /\ i = Len(http.outcomes)
                /\ http.pc \in {"returned", "done"}
                /\ http.result = "response_error"
    /\ http.pc = "attempt" => Len(http.backoffs) = Len(http.outcomes)

\* C26 witness: two connection failures with sleeps of 1 s and 2 s, then an
\* error response on the third attempt, handed to the caller
C26_Witness ==
    /\ http.pc = "done"
    /\ http.outcomes = <<"ConnectTimeout", "ReadTimeout", "response_error">>
    /\ http.backoffs = <<1, 2>>
    /\ http.result = "response_error"

\* C27: every step leaves the earlier message log as a prefix of the later
\* one, and each store of an inbound message grows it by exactly that message.
C27_LogOnlyGrowsByAppends ==
    [][/\ IsPrefix(log.messages, log'.messages)
       /\ \A w \in Slots :
             (writer[w].pc = "inbound" /\ writer'[w].pc = "reply")
                => log'.messages =
                      Append(log.messages, LogMessage("customer", w, FALSE))]_vars

\* C27 witness: two turns were in flight together with a followup, and the log
\* holds all five messages in the order they were stored
C27_Witness ==
    /\ Len(log.messages) = 5
    /\ log.messages[1] = LogMessage("customer", "r1", FALSE)
    /\ log.messages[2] = LogMessage("customer", "r2", FALSE)
    /\ log.messages[3] = LogMessage("agent", "followup", TRUE)
    /\ log.messages[4] = LogMessage("agent", "r2", FALSE)
    /\ log.messages[5] = LogMessage("agent", "r1", FALSE)
====
